---- MODULE Spec2Model ----
(***************************************************************************)
(* Model of uxarray's Grid class (src/uxarray/grid.py): construction from  *)
(* a file path or a vertex array, format detection (find_type), reader     *)
(* dispatch (from_file), saveas_file and write.                            *)
(*                                                                         *)
(* Python values are modelled as records tagged with their type; a string  *)
(* is a sequence of tokens so that PurePath.suffix and str.format are      *)
(* computed rather than assumed.  None in a string-valued field is "None". *)
(***************************************************************************)
EXTENDS Integers, Sequences, FiniteSets, TLC

VARIABLES fs, grid, last

vars == <<fs, grid, last>>

(***************************************************************************)
(* Bounds of the model.                                                    *)
(***************************************************************************)
\* largest number of rows of a vertex array handed to the constructor
MaxVerts == 2

(***************************************************************************)
(* Values.                                                                 *)
(***************************************************************************)
None == [type |-> "NoneType"]

\* the directory the grid files live in, and one the model never reads from
MeshDir == "meshfiles"
OutDir == "out"

Path(parent, name) == [type |-> "str", parent |-> parent, name |-> name]

\* file names of the mesh directory
MeshNames ==
    { <<"mesh", ".", "ug">>, <<"poly", ".", "shp">>, <<".", "shp">> }

\* file names written outside the mesh directory
OutNames ==
    { <<"o", ".", "ugrid">>, <<"o", ".", "ug">>, <<"o", ".", "g">>,
      <<"o", ".", "exo">>, <<"o", ".", "shp">>, <<".", "g">>, <<"o">> }

MeshPaths == { Path(MeshDir, n) : n \in MeshNames }
OutPaths == { Path(OutDir, n) : n \in OutNames }

\* the format argument of write(); <<>> is the default ""
Formats ==
    { <<>>, <<".", "ugrid">>, <<".", "ug">>, <<".", "g">>, <<".", "exo">>,
      <<".", "shp">>, <<"ug">> }

\* the attributes find_type probes for
Attrs == {"coordx", "grid_center_lon", "coord", "Mesh2"}

OpenErrors == {"TypeError", "AttributeError", "RuntimeError", "OSError",
               "ValueError"}

\* what is known of a name of the mesh directory: a file the program wrote
\* holds what was written; any other name is outside its control, and what
\* a call finds there is an input of that call
External == [kind |-> "external"]
DatasetFile(A) == [kind |-> "dataset", attrs |-> A]

\* an xarray.Dataset opened from a path
Dataset(p, A) == [type |-> "Dataset", path |-> p, attrs |-> A]

\* xr.Dataset(): the empty internal dataset
EmptyDataset ==
    [ type |-> "Dataset", data_vars |-> {}, topology_dimension |-> 0,
      Mesh2_node_x |-> <<>>, Mesh2_node_y |-> <<>>, Mesh2_face_nodes |-> <<>> ]

\* vertex arrays of two columns: the rows are the unit vectors
Rows == { <<1, 0>>, <<0, 1>> }
Array(rows) == [type |-> "ndarray", rows |-> rows]
Arrays == { Array(r) : r \in UNION { [1..n -> Rows] : n \in 0..MaxVerts } }

\* the keyword arguments of the constructor; "absent" is a key not passed
KwLatlon == {"absent", "True", "False"}
KwGridspec == {"absent", "spec.yaml"}

(***************************************************************************)
(* Library functions the code calls.                                       *)
(***************************************************************************)
\* PurePath(p).suffix: the part of the name from its last dot on, unless
\* that dot is the first or the last character of the name
suffix(name) ==
    LET dots == { k \in 1..Len(name) : name[k] = "." }
        i == IF dots = {} THEN 0 ELSE CHOOSE k \in dots : \A j \in dots : j <= k
    IN  IF 1 < i /\ i < Len(name) THEN SubSeq(name, i, Len(name)) ELSE <<>>

\* '{}'.format(p): a path prints as parent/name, None as "None"
format(p) ==
    IF p.type = "str" THEN <<p.parent, "/">> \o p.name ELSE <<"None">>

\* os.path.isfile(a): for a string, whether a regular file bears the name;
\* for an array the bytes of the buffer are taken as a name, which a file may
\* bear or not, or which the platform rejects with ValueError
isfile(fsv, a) ==
    IF a.type = "str"
    THEN IF fsv[a.name].kind = "dataset" THEN {"True"} ELSE {"True", "False"}
    ELSE {"True", "False", "ValueError"}

\* str(e) of the error the opener raises
OpenerText(e) == <<"open_dataset", e>>
Opened(ds) == [ok |-> TRUE, ds |-> ds]
Failed(e) == [ok |-> FALSE, error |-> e, text |-> OpenerText(e)]
NotCalled == [ok |-> FALSE, error |-> "notcalled", text |-> <<>>]

\* str(e) of the TypeError PurePath raises for None
PurePathText == <<"expected str, bytes or os.PathLike object, not NoneType">>

\* xr.open_dataset(p, mask_and_scale=False): a file the program wrote opens
\* with what was written, any other opens with some attributes or fails
open_dataset(fsv, p) ==
    IF fsv[p.name].kind = "dataset"
    THEN { Opened(Dataset(p, fsv[p.name].attrs)) }
    ELSE { Opened(Dataset(p, A)) : A \in SUBSET Attrs }
           \cup { Failed(e) : e \in OpenErrors }

\* getattr(ds, a) succeeds; on None every attribute raises AttributeError
hasattr(ds, a) == ds.type = "Dataset" /\ a \in ds.attrs

\* exit(): SystemExit where the site module installed it, NameError where not
ExitOutcomes == {"SystemExit", "NameError"}

(***************************************************************************)
(* Outcome of a call: the object after it, and the exception it raised.    *)
(* An intermediate result is bound as the element of a one-element set,    *)
(* and The takes the result out of such a set.                             *)
(***************************************************************************)
The(S) == CHOOSE v \in S : TRUE

Running(g) == [g |-> g, exc |-> "none", msg |-> <<>>]
Raised(g, type, msg) == [g |-> g, exc |-> type, msg |-> msg]

(***************************************************************************)
(* Grid.find_type                                                          *)
(***************************************************************************)
\* type_level_error with the extension check of the other handlers applied
type_level_error_fallback(g, text) ==
    IF g.filepath.type = "str" /\ suffix(g.filepath.name) = <<".", "shp">>
    THEN Running([g EXCEPT !.meshFileType = "shp"])
    ELSE Raised(g, "RuntimeError", text \o <<": ">> \o format(g.filepath))

\* except (TypeError, AttributeError)
type_level_error(g, text) ==
    Raised(g, "RuntimeError", text \o <<": ">> \o format(g.filepath))

\* container_error with the extension compared without its dot
container_error_nodot(g, file_extension, text) ==
    IF file_extension = <<"shp">>
    THEN Running([g EXCEPT !.meshFileType = "shp"])
    ELSE Raised(g, "RuntimeError", text \o <<": ">> \o format(g.filepath))

\* except (RuntimeError, OSError) and except ValueError: the same body
container_error(g, file_extension, text) ==
    IF file_extension = <<".", "shp">>
    THEN Running([g EXCEPT !.meshFileType = "shp"])
    ELSE Raised(g, "RuntimeError", text \o <<": ">> \o format(g.filepath))

\* the try block and its handlers
try_open(g, o) ==
    IF g.filepath.type # "str"
    THEN type_level_error(g, PurePathText)
    ELSE LET file_extension == suffix(g.filepath.name)
         IN  IF o.ok THEN Running([g EXCEPT !.ext_ds = o.ds])
             ELSE IF o.error \in {"TypeError", "AttributeError"}
                  THEN type_level_error(g, o.text)
             ELSE IF o.error \in {"RuntimeError", "OSError"}
                  THEN container_error(g, file_extension, o.text)
             ELSE container_error(g, file_extension, o.text)

\* try: self.ext_ds.<attr>; self.meshFileType = kind; except AttributeError
probe(g, attr, kind) ==
    IF hasattr(g.ext_ds, attr) THEN [g EXCEPT !.meshFileType = kind] ELSE g

\* the four probes, in the order of the code
detect(g) ==
    The({ probe(g3, "Mesh2", "ugrid") :
            g3 \in { probe(g2, "coord", "exo") :
              g2 \in { probe(g1, "grid_center_lon", "scrip") :
                g1 \in { probe(g, "coordx", "exo") } } } })

\* the end of find_type: return self.meshFileType
return_type(d) ==
    [g |-> d, exc |-> "none", msg |-> <<>>, ret |-> d.meshFileType]

\* find_type after its try block, whose outcome is t
find_type_after(t) ==
    IF t.exc # "none"
    THEN [g |-> t.g, exc |-> t.exc, msg |-> t.msg, ret |-> "raised"]
    ELSE The({ return_type(d) : d \in {detect(t.g)} })

\* find_type: ret is the value returned, "raised" when there is none
find_type(g, o) == The({ find_type_after(t) : t \in {try_open(g, o)} })

(***************************************************************************)
(* Grid.from_file                                                          *)
(***************************************************************************)
Call(name, arg) == [name |-> name, arg |-> arg]

\* the reader called for a mesh file type
dispatch(g) ==
    IF g.meshFileType = "exo" THEN <<Call("read_exodus", g.ext_ds)>>
    ELSE IF g.meshFileType = "scrip" THEN <<Call("read_scrip", g.ext_ds)>>
    ELSE IF g.meshFileType = "ugrid" THEN <<Call("read_ugrid", g.filepath)>>
    ELSE IF g.meshFileType = "shp" THEN <<Call("read_shpfile", g.filepath)>>
    ELSE <<>>

\* the reader call of from_file, or its raise, for the object g1 that holds
\* the result of find_type
call_reader(g1, ft) ==
    IF g1.meshFileType \in {"exo", "scrip", "ugrid", "shp"}
    THEN [g |-> g1, exc |-> "none", msg |-> <<>>, ft |-> ft,
          readers |-> dispatch(g1)]
    ELSE [g |-> g1, exc |-> "RuntimeError",
          msg |-> <<"unknown file format.">>, ft |-> ft,
          readers |-> dispatch(g1)]

\* from_file after its call of find_type, whose outcome is ft
from_file_after(ft) ==
    IF ft.exc # "none"
    THEN [g |-> ft.g, exc |-> ft.exc, msg |-> ft.msg, ft |-> ft,
          readers |-> <<>>]
    ELSE The({ call_reader(g1, ft) :
                 g1 \in { [ft.g EXCEPT !.meshFileType = ft.ret] } })

\* from_file: ft is the call of find_type in it, readers the readers called
from_file(g, o) == The({ from_file_after(ft) : ft \in {find_type(g, o)} })

(***************************************************************************)
(* Grid.from_vert and Grid._init_mesh2                                     *)
(***************************************************************************)
\* range(a, b) as a list
range(a, b) == [k \in 1..(b - a) |-> a + k - 1]

\* rows.transpose(): one sequence per column of a non-empty array
transpose(rows) ==
    [c \in 1..Len(rows[1]) |-> [k \in 1..Len(rows) |-> rows[k][c]]]

\* _init_mesh2: the Mesh2 variable with topology_dimension -1
init_mesh2(g) ==
    [g EXCEPT !.in_ds.data_vars = @ \cup {"Mesh2"},
              !.in_ds.topology_dimension = -1]

\* from_vert with the nodes of the face numbered from 1
from_vert_onebased(g) ==
    LET g1 == init_mesh2(g)
        rows == g.vertices.rows
    IN  IF Len(rows) = 0
        THEN Raised(g1, "IndexError", <<"index 0 is out of bounds">>)
        ELSE LET x_coord == transpose(rows)[1]
                 y_coord == transpose(rows)[2]
                 num_nodes == Len(x_coord)
                 conn == <<range(1, num_nodes + 1)>>
             IN  Running(
                   [g1 EXCEPT
                      !.in_ds.topology_dimension = Len(rows[1]),
                      !.in_ds.data_vars =
                          @ \cup {"Mesh2_node_x", "Mesh2_node_y",
                                  "Mesh2_face_nodes"},
                      !.in_ds.Mesh2_node_x = x_coord,
                      !.in_ds.Mesh2_node_y = y_coord,
                      !.in_ds.Mesh2_face_nodes = conn])

\* from_vert: one face over all the nodes; vertices[0] of an array without
\* rows raises IndexError
from_vert(g) ==
    LET g1 == init_mesh2(g)
        rows == g.vertices.rows
    IN  IF Len(rows) = 0
        THEN Raised(g1, "IndexError", <<"index 0 is out of bounds">>)
        ELSE LET x_coord == transpose(rows)[1]
                 y_coord == transpose(rows)[2]
                 num_nodes == Len(x_coord)
                 conn == <<range(0, num_nodes)>>
             IN  Running(
                   [g1 EXCEPT
                      !.in_ds.topology_dimension = Len(rows[1]),
                      !.in_ds.data_vars =
                          @ \cup {"Mesh2_node_x", "Mesh2_node_y",
                                  "Mesh2_face_nodes"},
                      !.in_ds.Mesh2_node_x = x_coord,
                      !.in_ds.Mesh2_node_y = y_coord,
                      !.in_ds.Mesh2_face_nodes = conn])

(***************************************************************************)
(* Grid.__init__                                                           *)
(***************************************************************************)
\* an object none of whose attributes is set yet
NewObject ==
    [ type |-> "Grid", filepath |-> None, gridspec |-> "unset",
      vertices |-> None, islatlon |-> "unset", concave |-> "unset",
      meshFileType |-> "unset", ext_ds |-> None, in_ds |-> EmptyDataset ]

\* the loop over kwargs.items()
apply_kwargs(g, latlon, gridspec) ==
    [g EXCEPT !.islatlon = IF latlon # "absent" THEN latlon ELSE @,
              !.gridspec = IF gridspec # "absent" THEN gridspec ELSE @]

\* the assignments after the loop
set_defaults(g) ==
    [g EXCEPT !.filepath = None, !.gridspec = "None", !.vertices = None,
              !.islatlon = "None", !.concave = "None",
              !.meshFileType = "None", !.ext_ds = None,
              !.in_ds = EmptyDataset]

\* the state of the object when the constructor starts to look at args[0]
initial_fields(latlon, gridspec) ==
    set_defaults(apply_kwargs(NewObject, latlon, gridspec))

\* the try block that checks for a file: vert counts the calls of from_vert
check_file(g, a, isf, ex) ==
    LET with_verts == [g EXCEPT !.vertices = a]
    IN  IF isf = "ValueError"
        THEN IF a.type = "ndarray"
             THEN from_vert(with_verts) @@ [vert |-> 1]
             ELSE Running(g) @@ [vert |-> 0]
        ELSE IF isf = "False" /\ a.type # "ndarray"
             THEN Raised(g, ex, <<>>) @@ [vert |-> 0]
        ELSE IF a.type = "ndarray"
             THEN from_vert(with_verts) @@ [vert |-> 1]
        ELSE Running(g) @@ [vert |-> 0]

\* what a constructor call that stopped before from_file reports of it
NoFromFile ==
    [ft |-> [exc |-> "none", ret |-> "notcalled"], readers |-> <<>>,
     classified |-> FALSE]

\* the call of from_file in __init__, whose outcome is f
init_from_file(f, vert) ==
    [g |-> f.g, exc |-> f.exc, msg |-> f.msg, vert |-> vert, spec |-> 0,
     ft |-> f.ft, readers |-> f.readers, classified |-> TRUE]

\* __init__ after the file check, whose outcome is c
init_after(c, a, isf2, o) ==
    IF c.exc # "none"
    THEN [g |-> c.g, exc |-> c.exc, msg |-> c.msg, vert |-> c.vert,
          spec |-> 0] @@ NoFromFile
    ELSE IF a.type = "str" /\ isf2 = "True"
    THEN The({ init_from_file(f, c.vert) :
                 f \in { from_file([c.g EXCEPT !.filepath = a], o) } })
    ELSE IF a.type = "str"
    THEN [g |-> [c.g EXCEPT !.gridspec = a], exc |-> "none",
          msg |-> <<>>, vert |-> c.vert, spec |-> 1] @@ NoFromFile
    ELSE [g |-> c.g, exc |-> "none", msg |-> <<>>, vert |-> c.vert,
          spec |-> 0] @@ NoFromFile

\* __init__(a, latlon=.., gridspec=..): isf and isf2 are what the two calls
\* of os.path.isfile(a) give, ex what exit() raises, o what the opener gives
init(a, latlon, gridspec, isf, isf2, ex, o) ==
    The({ init_after(c, a, isf2, o) :
            c \in { check_file(initial_fields(latlon, gridspec), a, isf, ex) } })

(***************************************************************************)
(* Grid.write and Grid.saveas_file                                         *)
(***************************************************************************)
\* write with the format always taken from the extension of outfile
write_by_extension(g, outfile, fmt) ==
    LET fmt1 == suffix(outfile.name)
    IN  IF fmt1 = <<".", "ugrid">> \/ fmt1 = <<".", "ug">>
        THEN <<Call("write_ugrid", outfile)>>
        ELSE IF fmt1 = <<".", "g">> \/ fmt1 = <<".", "exo">>
        THEN <<Call("write_exodus", outfile)>>
        ELSE <<>>

\* write: the writers called, in order
write(g, outfile, fmt) ==
    LET fmt1 == IF fmt = <<>> THEN suffix(outfile.name) ELSE fmt
    IN  IF fmt1 = <<".", "ugrid">> \/ fmt1 = <<".", "ug">>
        THEN <<Call("write_ugrid", outfile)>>
        ELSE IF fmt1 = <<".", "g">> \/ fmt1 = <<".", "exo">>
        THEN <<Call("write_exodus", outfile)>>
        ELSE <<>>

\* saveas_file up to the call of the writer: PurePath(None) raises TypeError
saveas_file(g, filename) ==
    IF g.filepath.type # "str"
    THEN Raised(g, "TypeError", PurePathText)
    ELSE Running([g EXCEPT !.filepath = Path(g.filepath.parent, filename)])

(***************************************************************************)
(* The writers are not part of grid.py: a writer either writes the file or *)
(* raises OSError and writes nothing; a file write_ugrid wrote classifies  *)
(* as ugrid.                                                               *)
(***************************************************************************)
write_ugrid(fsv, p, ok) ==
    IF ok /\ p.parent = MeshDir
    THEN [fsv EXCEPT ![p.name] = DatasetFile({"Mesh2"})]
    ELSE fsv

(***************************************************************************)
(* The state: what is known of the mesh directory, the Grid object the     *)
(* caller holds, and what the last call was given and did.                 *)
(***************************************************************************)
Quiet ==
    [ op |-> "none", arg |-> None, latlon |-> "absent",
      gridspec |-> "absent", fmt |-> <<>>, exc |-> "none", msg |-> <<>>,
      isf |-> "notcalled", classified |-> FALSE, path |-> None,
      o |-> NotCalled, ftexc |-> "none", ret |-> "notcalled",
      readers |-> <<>>, writers |-> <<>>, vert |-> 0, spec |-> 0 ]

Init ==
    /\ fs = [n \in MeshNames |-> External]
    /\ grid = None
    /\ last = Quiet

\* the opener's outcomes for the object's filepath; PurePath(None) raises
\* before the opener is called
opener(fsv, p) == IF p.type = "str" THEN open_dataset(fsv, p) ELSE {NotCalled}

\* g = Grid(a, latlon=.., gridspec=..) with the arguments drawn from the given
\* sets: a failed call leaves the caller with the object it had
GridInit(args, latlons, gridspecs) ==
    \E a \in args, latlon \in latlons, gridspec \in gridspecs :
      \E isf \in isfile(fs, a) :
        \E ex \in (IF a.type = "str" /\ isf = "False"
                   THEN ExitOutcomes ELSE {"SystemExit"}) :
          \E isf2 \in (IF a.type = "str" /\ isf = "True"
                       THEN isfile(fs, a) ELSE {"notcalled"}) :
            \E o \in (IF isf2 = "True" THEN opener(fs, a) ELSE {NotCalled}) :
              \E r \in { init(a, latlon, gridspec, isf, isf2, ex, o) } :
                  /\ grid' = IF r.exc = "none" THEN r.g ELSE grid
                  /\ last' = [Quiet EXCEPT
                                !.op = "Grid", !.arg = a, !.latlon = latlon,
                                !.gridspec = gridspec, !.exc = r.exc,
                                !.msg = r.msg, !.isf = isf,
                                !.classified = r.classified,
                                !.path = IF r.classified THEN a ELSE None,
                                !.o = o, !.ftexc = r.ft.exc,
                                !.ret = r.ft.ret, !.readers = r.readers,
                                !.vert = r.vert, !.spec = r.spec]
                  /\ UNCHANGED fs

\* g.find_type()
FindType ==
    /\ grid.type = "Grid"
    /\ \E o \in opener(fs, grid.filepath) :
         \E r \in { find_type(grid, o) } :
             /\ grid' = r.g
             /\ last' = [Quiet EXCEPT
                           !.op = "find_type", !.exc = r.exc, !.msg = r.msg,
                           !.classified = TRUE, !.path = grid.filepath,
                           !.o = o, !.ftexc = r.exc, !.ret = r.ret]
    /\ UNCHANGED fs

\* g.from_file()
FromFile ==
    /\ grid.type = "Grid"
    /\ \E o \in opener(fs, grid.filepath) :
         \E r \in { from_file(grid, o) } :
             /\ grid' = r.g
             /\ last' = [Quiet EXCEPT
                           !.op = "from_file", !.exc = r.exc, !.msg = r.msg,
                           !.classified = TRUE, !.path = grid.filepath,
                           !.o = o, !.ftexc = r.ft.exc, !.ret = r.ft.ret,
                           !.readers = r.readers]
    /\ UNCHANGED fs

\* g.saveas_file(filename): ok is whether write_ugrid completes
SaveAs ==
    /\ grid.type = "Grid"
    /\ \E filename \in MeshNames :
         \E r \in { saveas_file(grid, filename) } :
             IF r.exc # "none"
             THEN /\ grid' = r.g
                  /\ last' = [Quiet EXCEPT
                                !.op = "saveas_file",
                                !.arg = Path(MeshDir, filename),
                                !.exc = r.exc, !.msg = r.msg]
                  /\ UNCHANGED fs
             ELSE \E ok \in BOOLEAN :
                    /\ grid' = r.g
                    /\ fs' = write_ugrid(fs, r.g.filepath, ok)
                    /\ last' = [Quiet EXCEPT
                                  !.op = "saveas_file",
                                  !.arg = Path(MeshDir, filename),
                                  !.exc = IF ok THEN "none" ELSE "OSError",
                                  !.writers =
                                      <<Call("write_ugrid", r.g.filepath)>>]

\* g.write(outfile, format) with the arguments drawn from the given sets, all
\* of them paths outside the mesh directory: ok is whether the writer completes
Write(outfiles, fmts) ==
    /\ grid.type = "Grid"
    /\ \E outfile \in outfiles, fmt \in fmts :
         \E calls \in { write(grid, outfile, fmt) } :
             \E ok \in (IF calls = <<>> THEN {TRUE} ELSE BOOLEAN) :
               last' = [Quiet EXCEPT
                          !.op = "write", !.arg = outfile, !.fmt = fmt,
                          !.exc = IF ok THEN "none" ELSE "OSError",
                          !.writers = calls]
    /\ UNCHANGED <<fs, grid>>

(***************************************************************************)
(* Spec: format detection.  The constructor is given a path of the mesh    *)
(* directory or a one-row array, and no keyword.                           *)
(***************************************************************************)
UnitArrays == { Array(<<>>), Array(<< <<1, 0>> >>) }

Next ==
    \/ GridInit(MeshPaths \cup UnitArrays, {"absent"}, {"absent"})
    \/ FindType
    \/ FromFile
    \/ SaveAs
    \/ Write({Path(OutDir, <<"o", ".", "ug">>)}, {<<>>, <<".", "exo">>})

Spec == Init /\ [][Next]_vars

(***************************************************************************)
(* SpecApi: construction and writing.  The constructor is given a path or  *)
(* any array of at most MaxVerts rows, with or without keywords; write()   *)
(* is given every output name and format.                                  *)
(***************************************************************************)
NextApi ==
    \/ GridInit(MeshPaths \cup Arrays, KwLatlon, KwGridspec)
    \/ Write(OutPaths, Formats)

SpecApi == Init /\ [][NextApi]_vars

(***************************************************************************)
(* The claims.                                                             *)
(***************************************************************************)
\* t occurs in s as a contiguous part
Contains(s, t) ==
    \E k \in 0..(Len(s) - Len(t)) : SubSeq(s, k + 1, k + Len(t)) = t

\* the result the probe order coordx, grid_center_lon, coord, Mesh2 fixes
LastProbeWins(A) ==
    IF "Mesh2" \in A THEN "ugrid"
    ELSE IF "coord" \in A THEN "exo"
    ELSE IF "grid_center_lon" \in A THEN "scrip"
    ELSE IF "coordx" \in A THEN "exo"
    ELSE "None"

\* the names whose extension is .shp; the file named .shp has no extension
ShpNames == { <<"poly", ".", "shp">> }

\* the extension of each output name
ExtensionOf(name) ==
    CASE name = <<"o", ".", "ugrid">> -> <<".", "ugrid">>
      [] name = <<"o", ".", "ug">> -> <<".", "ug">>
      [] name = <<"o", ".", "g">> -> <<".", "g">>
      [] name = <<"o", ".", "exo">> -> <<".", "exo">>
      [] name = <<"o", ".", "shp">> -> <<".", "shp">>
      [] OTHER -> <<>>

\* a call classified a file: find_type ran in it
Classified == last.classified
\* the opener failed with a container-level error
ContainerFailure ==
    /\ Classified /\ ~last.o.ok
    /\ last.o.error \in {"RuntimeError", "OSError", "ValueError"}
\* the opener failed with an argument-type-level error
TypeLevelFailure ==
    /\ Classified /\ ~last.o.ok
    /\ last.o.error \in {"TypeError", "AttributeError"}
\* from_file ran to its dispatch: find_type returned in it
Dispatched ==
    /\ last.op \in {"Grid", "from_file"} /\ Classified /\ last.ftexc = "none"

\* C1: whenever the opener opens the dataset, find_type returns the kind of
\* the last matching probe in the order coordx, grid_center_lon, coord,
\* Mesh2, and None when no probe matches.
C1_LastProbeWins ==
    (Classified /\ last.o.ok) =>
        /\ last.ftexc = "none"
        /\ last.ret = LastProbeWins(last.o.ds.attrs)

\* C2: when the opener fails with RuntimeError, OSError or ValueError in the
\* classification of a freshly constructed Grid, the result is shp exactly
\* when the extension of the path is .shp, and for every other extension
\* RuntimeError is raised with a message that contains the opener's message.
C2_ShapefileFallback ==
    (last.op = "Grid" /\ ContainerFailure) =>
        IF last.path.name \in ShpNames
        THEN last.ftexc = "none" /\ last.ret = "shp"
        ELSE /\ last.ftexc = "RuntimeError" /\ last.ret = "raised"
             /\ last.exc = "RuntimeError"
             /\ Contains(last.msg, last.o.text)

\* C2 witness: a constructor call on poly.shp whose open failed with OSError
\* and which classified the file as shp
C2_Witness ==
    /\ last.op = "Grid" /\ ContainerFailure /\ last.o.error = "OSError"
    /\ last.path.name = <<"poly", ".", "shp">>
    /\ last.ret = "shp"

\* C3: when the opener fails with TypeError or AttributeError, the call
\* raises RuntimeError whatever the extension, no shapefile fallback is
\* applied and no reader is called.
C3_TypeLevelFailure ==
    TypeLevelFailure =>
        /\ last.ftexc = "RuntimeError" /\ last.ret = "raised"
        /\ last.exc = "RuntimeError"
        /\ Contains(last.msg, last.o.text)
        /\ last.readers = <<>>

\* C3 witness: a constructor call on poly.shp whose open failed with
\* TypeError and which raised RuntimeError
C3_Witness ==
    /\ last.op = "Grid" /\ TypeLevelFailure /\ last.o.error = "TypeError"
    /\ last.path.name = <<"poly", ".", "shp">>
    /\ last.exc = "RuntimeError"

\* the reader matched to a kind
ReaderOf(kind) ==
    CASE kind = "exo" -> "read_exodus"
      [] kind = "scrip" -> "read_scrip"
      [] kind = "ugrid" -> "read_ugrid"
      [] kind = "shp" -> "read_shpfile"
      [] OTHER -> "none"

\* C4: from_file calls exactly the one reader matched to the kind find_type
\* returned; when the dataset opened and no probe matched, find_type returns
\* None without raising, no reader is called and from_file raises
\* RuntimeError 'unknown file format.'.
C4_Dispatch ==
    Dispatched =>
        /\ last.ret \in {"exo", "scrip", "ugrid", "shp"} =>
              /\ Len(last.readers) = 1
              /\ last.readers[1].name = ReaderOf(last.ret)
        /\ (last.o.ok /\ last.o.ds.attrs = {}) =>
              /\ last.ret = "None"
              /\ last.readers = <<>>
              /\ last.exc = "RuntimeError"
              /\ last.msg = <<"unknown file format.">>

\* C5: for exo, scrip and ugrid the reader is passed the dataset opened
\* during the classification.
C5_SameHandle ==
    (Dispatched /\ last.ret \in {"exo", "scrip", "ugrid"}) =>
        /\ Len(last.readers) = 1
        /\ last.o.ok
        /\ last.readers[1].arg = last.o.ds

C7_FileNotFound ==
    (last.op = "Grid" /\ last.arg.type = "str" /\ last.isf = "False") =>
        /\ last.exc = "RuntimeError"
        /\ last.readers = <<>>
        /\ last.spec = 0

\* C8: write uses the format given, and the extension of outfile when none
\* is given; it calls exactly write_ugrid for .ugrid and .ug, exactly
\* write_exodus for .g and .exo, and for any other format it calls no
\* writer, raises nothing and leaves the grid as it was.
C8_Write ==
    [][ last'.op = "write" =>
          LET f == IF last'.fmt # <<>> THEN last'.fmt
                   ELSE ExtensionOf(last'.arg.name)
          IN  IF f \in { <<".", "ugrid">>, <<".", "ug">> }
              THEN last'.writers = <<Call("write_ugrid", last'.arg)>>
              ELSE IF f \in { <<".", "g">>, <<".", "exo">> }
              THEN last'.writers = <<Call("write_exodus", last'.arg)>>
              ELSE /\ last'.writers = <<>>
                   /\ last'.exc = "none"
                   /\ grid' = grid ]_vars

\* C8 witness: write("out/o.g", ".ug") called the ugrid writer
C8_Witness ==
    /\ last.op = "write" /\ last.fmt = <<".", "ug">>
    /\ last.arg = Path(OutDir, <<"o", ".", "g">>)
    /\ last.writers = <<Call("write_ugrid", Path(OutDir, <<"o", ".", "g">>))>>

\* a Grid as the constructor leaves it before from_file, with filepath p
FreshGrid(p) == [initial_fields("absent", "absent") EXCEPT !.filepath = p]

\* C9: the outcome of every call of find_type is the one a fresh Grid gives
\* for the same path and the same outcome of the opener.
C9_Stateless ==
    Classified =>
        LET f == find_type(FreshGrid(last.path), last.o)
        IN  f.exc = last.ftexc /\ f.ret = last.ret

\* C10: after Grid(x, latlon=v) islatlon is v, and after Grid(x, gridspec=g)
\* on an array or an existing file gridspec is g.
C10_Kwargs ==
    (last.op = "Grid" /\ last.exc = "none") =>
        /\ last.latlon # "absent" => grid.islatlon = last.latlon
        /\ (last.gridspec # "absent" /\ last.spec = 0) =>
              grid.gridspec = last.gridspec

====
